---- MODULE Spec2Model ----
(***************************************************************************)
(* A model of swebench/harness/log_parsers/python.py: the dialect parsers  *)
(* (parse_log_pytest and the others), the generic fallback (swa_parser with *)
(* parser_pytest and parser_unittest) and normalize_log.                   *)
(*                                                                         *)
(* Logs are TLC strings; a character is a string of length 1.  Positions   *)
(* are 1-based (Python's are 0-based), and 0 stands for "not found"        *)
(* (Python's -1).  A result mapping is a function from identifier strings  *)
(* to status strings.                                                      *)
(***************************************************************************)
EXTENDS Naturals, Sequences, FiniteSets

VARIABLES log, pc, parser, test_status_map, raised,
          normalized, renormalized, pass1, ellipsis, pass2

vars == <<log, pc, parser, test_status_map, raised,
          normalized, renormalized, pass1, ellipsis, pass2>>

----------------------------------------------------------------------------
(* Characters *)

ESC == ""

DIGITS == {"0", "1", "2", "3", "4", "5", "6", "7", "8", "9"}

HEXDIGITS == DIGITS \cup {"a", "b", "c", "d", "e", "f", "A", "B", "C", "D", "E", "F"}

LOWER == {"a", "b", "c", "d", "e", "f", "g", "h", "i", "j", "k", "l", "m",
          "n", "o", "p", "q", "r", "s", "t", "u", "v", "w", "x", "y", "z"}

UPPER == {"A", "B", "C", "D", "E", "F", "G", "H", "I", "J", "K", "L", "M",
          "N", "O", "P", "Q", "R", "S", "T", "U", "V", "W", "X", "Y", "Z"}

\* The regular expressions' \w.
WORDCHARS == LOWER \cup UPPER \cup DIGITS \cup {"_"}

\* The characters str.split(), str.strip() and the regular expressions' \s
\* take as white space, among those a TLA+ string can hold.
WHITESPACE == {" ", "\t", "\n", "\r", "\f"}

\* chr(1) .. chr(31), among those a TLA+ string can hold.
escapes == {"\t", "\n", "\r", "\f", ESC}

----------------------------------------------------------------------------
(* Python's str methods *)

\* s[i-1:i]: the character at i, "" beyond the ends
Char(s, i) == IF 1 <= i /\ i <= Len(s) THEN SubSeq(s, i, i) ELSE ""

\* s[i-1:].startswith(p)
StartsWithAt(s, p, i) ==
    /\ i + Len(p) - 1 <= Len(s)
    /\ SubSeq(s, i, i + Len(p) - 1) = p

startswith(s, p) == StartsWithAt(s, p, 1)

endswith(s, p) ==
    /\ Len(p) <= Len(s)
    /\ SubSeq(s, Len(s) - Len(p) + 1, Len(s)) = p

\* The least and the greatest of a set of positions, 0 for none.
First(I) == IF I = {} THEN 0 ELSE CHOOSE i \in I : \A j \in I : i <= j

Last(I) == IF I = {} THEN 0 ELSE CHOOSE i \in I : \A j \in I : i >= j

\* s.find(p, i-1) + 1
FindFrom(s, p, i) == First({k \in i..(Len(s) - Len(p) + 1) : StartsWithAt(s, p, k)})

find(s, p) == FindFrom(s, p, 1)

\* p in s
contains(s, p) == find(s, p) # 0

\* s.rfind(p, 0, i-1+len(p)) + 1: the last occurrence that starts at i or before
RFindFrom(s, p, i) == Last({k \in 1..i : StartsWithAt(s, p, k)})

rfind(s, p) == RFindFrom(s, p, Len(s) - Len(p) + 1)

\* s.count(p): occurrences that do not overlap, from the left
RECURSIVE CountFrom(_, _, _)
CountFrom(s, p, i) ==
    LET k == FindFrom(s, p, i)
    IN  IF k = 0 THEN 0 ELSE 1 + CountFrom(s, p, k + Len(p))

count(s, p) == CountFrom(s, p, 1)

\* s.replace(old, new), old not empty
RECURSIVE ReplaceFrom(_, _, _, _)
ReplaceFrom(s, old, new, i) ==
    LET k == FindFrom(s, old, i)
    IN  IF k = 0 THEN SubSeq(s, i, Len(s))
        ELSE SubSeq(s, i, k - 1) \o new \o ReplaceFrom(s, old, new, k + Len(old))

replace(s, old, new) == ReplaceFrom(s, old, new, 1)

\* s.split(sep): the list of the pieces between the occurrences of sep
RECURSIVE SplitFrom(_, _, _)
SplitFrom(s, sep, i) ==
    LET k == FindFrom(s, sep, i)
    IN  IF k = 0 THEN <<SubSeq(s, i, Len(s))>>
        ELSE <<SubSeq(s, i, k - 1)>> \o SplitFrom(s, sep, k + Len(sep))

split(s, sep) == SplitFrom(s, sep, 1)

\* s.split(sep, 1)[-1]: what follows the first sep (all of s when there is none)
split1_last(s, sep) ==
    LET k == find(s, sep)
    IN  IF k = 0 THEN s ELSE SubSeq(s, k + Len(sep), Len(s))

\* s.rsplit(sep, 1)[0]: what precedes the last sep (all of s when there is none)
rsplit1_first(s, sep) ==
    LET k == rfind(s, sep)
    IN  IF k = 0 THEN s ELSE SubSeq(s, 1, k - 1)

\* The end of the run of characters of set cs (or, with inside = FALSE, of
\* characters not of cs) that starts at i: the position after it.
RECURSIVE RunEnd(_, _, _, _)
RunEnd(s, cs, inside, i) ==
    IF i > Len(s) \/ ((Char(s, i) \in cs) # inside) THEN i
    ELSE RunEnd(s, cs, inside, i + 1)

\* s.split(): the white-space separated tokens, none empty
RECURSIVE SplitWsFrom(_, _)
SplitWsFrom(s, i) ==
    LET b == RunEnd(s, WHITESPACE, TRUE, i)
        e == RunEnd(s, WHITESPACE, FALSE, b)
    IN  IF b > Len(s) THEN <<>>
        ELSE <<SubSeq(s, b, e - 1)>> \o SplitWsFrom(s, e)

split_ws(s) == SplitWsFrom(s, 1)

lstrip(s) == SubSeq(s, RunEnd(s, WHITESPACE, TRUE, 1), Len(s))

\* The position before the white space that ends s.
RECURSIVE RStripEnd(_, _)
RStripEnd(s, i) ==
    IF i < 1 \/ Char(s, i) \notin WHITESPACE THEN i ELSE RStripEnd(s, i - 1)

rstrip(s) == SubSeq(s, 1, RStripEnd(s, Len(s)))

strip(s) == lstrip(rstrip(s))

\* s.translate(str.maketrans("", "", cs)): s without its characters of cs
RECURSIVE DeleteFrom(_, _, _)
DeleteFrom(s, cs, i) ==
    LET k == First({j \in i..Len(s) : Char(s, j) \in cs})
    IN  IF k = 0 THEN SubSeq(s, i, Len(s))
        ELSE SubSeq(s, i, k - 1) \o DeleteFrom(s, cs, k + 1)

translate_delete(s, cs) == DeleteFrom(s, cs, 1)

----------------------------------------------------------------------------
(* Mappings *)

EmptyMap == [k \in {} |-> ""]

\* m[k] = v
Put(m, k, v) == [x \in DOMAIN m \cup {k} |-> IF x = k THEN v ELSE m[x]]

\* The outcome of a parser: the mapping it returns, or the exception it raises.
Returned(m) == [raised |-> FALSE, map |-> m]

Raises == [raised |-> TRUE, map |-> EmptyMap]

----------------------------------------------------------------------------
(* swebench.harness.constants.TestStatus, in the order of its members *)

TestStatus == <<"FAILED", "PASSED", "SKIPPED", "ERROR", "XFAIL">>

StatusValues == {TestStatus[i] : i \in DOMAIN TestStatus}

\* any([line.startswith(x.value) for x in TestStatus])
startswith_status(line) == \E i \in DOMAIN TestStatus : startswith(line, TestStatus[i])

\* any([line.endswith(x.value) for x in TestStatus])
endswith_status(line) == \E i \in DOMAIN TestStatus : endswith(line, TestStatus[i])

----------------------------------------------------------------------------
(* The variables of a parser's loop over log.split("\n") *)

\* prev_test = None is prev_is_none.
InitialAcc == [raised |-> FALSE, map |-> EmptyMap, prev_test |-> "", prev_is_none |-> TRUE]

SetMap(acc, k, v) == [acc EXCEPT !.map = Put(acc.map, k, v)]

RaiseIn(acc) == [acc EXCEPT !.raised = TRUE]

\* What a parser returns from the loop's final acc.
Outcome(acc) == IF acc.raised THEN Raises ELSE Returned(acc.map)

----------------------------------------------------------------------------
(* parse_log_pytest *)

\* The status line's tokens: " - " removed from a FAILED line, then split().
status_line_tokens(line) ==
    split_ws(IF startswith(line, "FAILED") THEN replace(line, " - ", " ") ELSE line)

pytest_line(acc, line) ==
    IF startswith_status(line)
    THEN LET test_case == status_line_tokens(line)
         IN  IF Len(test_case) <= 1 THEN acc
             ELSE SetMap(acc, test_case[2], test_case[1])
    ELSE acc

----------------------------------------------------------------------------
(* parse_log_pytest_options *)

\* option_pattern.search(tok) for (.*?)\[(.*)\] on a token (no line break in
\* it): main is what precedes the first "[", option what lies between it and
\* the last "]"; what follows the last "]" is in no group.
option_pattern_search(tok) ==
    LET i == find(tok, "[")
        j == rfind(tok, "]")
    IN  IF i # 0 /\ j > i
        THEN [found |-> TRUE, main |-> SubSeq(tok, 1, i - 1),
              option |-> SubSeq(tok, i + 1, j - 1)]
        ELSE [found |-> FALSE, main |-> "", option |-> ""]

\* option.split("/")[-1]
last_path_component(option) == SubSeq(option, rfind(option, "/") + 1, Len(option))

\* collapse_option without its test for "*": a wildcard path is cut as well.
collapse_option_wildcard_too(option) ==
    IF startswith(option, "/") /\ ~startswith(option, "//")
    THEN "/" \o last_path_component(option)
    ELSE option

\* The option as recorded: an absolute path is cut to its last component.
collapse_option(option) ==
    IF /\ startswith(option, "/")
       /\ ~startswith(option, "//")
       /\ ~contains(option, "*")
    THEN "/" \o last_path_component(option)
    ELSE option

options_test_name(tok) ==
    LET has_option == option_pattern_search(tok)
    IN  IF has_option.found
        THEN has_option.main \o "[" \o collapse_option(has_option.option) \o "]"
        ELSE tok

pytest_options_line(acc, line) ==
    IF startswith_status(line)
    THEN LET test_case == status_line_tokens(line)
         IN  IF Len(test_case) <= 1 THEN acc
             ELSE SetMap(acc, options_test_name(test_case[2]), test_case[1])
    ELSE acc

----------------------------------------------------------------------------
(* parse_log_pytest_v2 *)

\* A match of \[(\d+)m at i: the position after it, or 0.
ansi_remnant_end(s, i) ==
    LET d == RunEnd(s, DIGITS, TRUE, i + 1)
    IN  IF Char(s, i) = "[" /\ d > i + 1 /\ Char(s, d) = "m" THEN d + 1 ELSE 0

\* re.sub(r"\[(\d+)m", "", s)
RECURSIVE SubAnsiFrom(_, _)
SubAnsiFrom(s, i) ==
    LET k == First({j \in i..Len(s) : ansi_remnant_end(s, j) # 0})
    IN  IF k = 0 THEN SubSeq(s, i, Len(s))
        ELSE SubSeq(s, i, k - 1) \o SubAnsiFrom(s, ansi_remnant_end(s, k))

sub_ansi_remnants(s) == SubAnsiFrom(s, 1)

pytest_v2_line(acc, line0) ==
    LET line == translate_delete(sub_ansi_remnants(line0), escapes)
    IN  IF startswith_status(line)
        THEN LET test_case == status_line_tokens(line)
             IN  IF Len(test_case) >= 2
                 THEN SetMap(acc, test_case[2], test_case[1])
                 ELSE acc
        ELSE IF endswith_status(line)
        THEN LET test_case == split_ws(line)
             IN  IF Len(test_case) >= 2
                 THEN SetMap(acc, test_case[1], test_case[2])
                 ELSE acc
        ELSE acc

----------------------------------------------------------------------------
(* parse_log_seaborn: line.split()[1] raises IndexError on a single token *)

seaborn_line(acc, line) ==
    LET parts == split_ws(line)
    IN  IF startswith(line, "FAILED")
        THEN IF Len(parts) < 2 THEN RaiseIn(acc)
             ELSE SetMap(acc, parts[2], "FAILED")
        ELSE IF contains(line, " PASSED ")
        THEN IF Len(parts) < 2 THEN RaiseIn(acc)
             ELSE IF parts[2] = "PASSED" THEN SetMap(acc, parts[1], "PASSED")
             ELSE acc
        ELSE IF startswith(line, "PASSED")
        THEN IF Len(parts) < 2 THEN RaiseIn(acc)
             ELSE SetMap(acc, parts[2], "PASSED")
        ELSE acc

----------------------------------------------------------------------------
(* parse_log_matplotlib *)

matplotlib_line(acc, line) ==
    pytest_line(acc, replace(replace(line, "MouseButton.LEFT", "1"),
                             "MouseButton.RIGHT", "3"))

----------------------------------------------------------------------------
(* parse_log_sympy *)

\* re.findall(r"(_*) (.*)\.py:(.*) (_*)", log) within one line (no part of the
\* pattern matches a line break, and a match runs past the line's last
\* space, so a line holds at most one): the match starts at the line's first
\* space, (.*) runs to the last ".py:" that leaves a space after it, and the
\* second (.*) to the line's last space.
sympy_block_line(acc, line) ==
    LET u  == find(line, " ")
        sp == rfind(line, " ")
        q  == RFindFrom(line, ".py:", sp - 4)
    IN  IF u # 0 /\ q >= u + 1
        THEN SetMap(acc, SubSeq(line, u + 1, q - 1) \o ".py:" \o SubSeq(line, q + 4, sp - 1),
                    "FAILED")
        ELSE acc

sympy_line(acc, line0) ==
    LET line == strip(line0)
        test == split_ws(line)[1]
        a1 == IF endswith(line, " E") THEN SetMap(acc, test, "ERROR") ELSE acc
        a2 == IF endswith(line, " F") THEN SetMap(a1, test, "FAILED") ELSE a1
        a3 == IF endswith(line, " ok") THEN SetMap(a2, test, "PASSED") ELSE a2
    IN  IF startswith(line, "test_") THEN a3 ELSE acc

----------------------------------------------------------------------------
(* parse_log_django *)

pass_suffixes == <<" ... ok", " ... OK", " ...  OK">>

MIGRATION_NOISE == "Applying sites.0002_alter_domain_unique...test_no_migrations"

\* for suffix in pass_suffixes: ... break.  The first suffix the line ends
\* with records the test as PASSED; a line with the migration prefix is cut
\* to what follows its first "...", and stays cut for the rest of the body.
django_pass_suffix(acc, line) ==
    LET hits == {i \in DOMAIN pass_suffixes : endswith(line, pass_suffixes[i])}
    IN  IF hits = {} THEN [acc |-> acc, line |-> line]
        ELSE LET suffix == pass_suffixes[CHOOSE i \in hits : \A j \in hits : i <= j]
                 line2 == IF startswith(strip(line), MIGRATION_NOISE)
                          THEN strip(split1_last(line, "..."))
                          ELSE line
             IN  [acc |-> SetMap(acc, rsplit1_first(line2, suffix), "PASSED"),
                  line |-> line2]

\* if line.startswith(label): test = line.split()[1].strip(); map[test] = status
django_label_line(acc, line, label, status) ==
    IF acc.raised \/ ~startswith(line, label) THEN acc
    ELSE LET toks == split_ws(line)
         IN  IF Len(toks) < 2 THEN RaiseIn(acc)
             ELSE SetMap(acc, strip(toks[2]), status)

\* if line.lstrip().startswith("ok") and prev_test is not None
django_bare_ok(acc, line) ==
    IF ~acc.raised /\ startswith(lstrip(line), "ok") /\ ~acc.prev_is_none
    THEN SetMap(acc, acc.prev_test, "PASSED")
    ELSE acc

django_line(acc, line0) ==
    LET line1 == strip(line0)
        a1 == IF contains(line1, "--version is equivalent to version")
              THEN SetMap(acc, "--version is equivalent to version", "PASSED")
              ELSE acc
        a2 == IF contains(line1, " ... ")
              THEN [a1 EXCEPT !.prev_test = split(line1, " ... ")[1],
                              !.prev_is_none = FALSE]
              ELSE a1
        ps == django_pass_suffix(a2, line1)
        line == ps.line
        a3 == ps.acc
        a4 == IF contains(line, " ... skipped")
              THEN SetMap(a3, split(line, " ... skipped")[1], "SKIPPED")
              ELSE a3
        a5 == IF endswith(line, " ... FAIL")
              THEN SetMap(a4, split(line, " ... FAIL")[1], "FAILED")
              ELSE a4
        a6 == django_label_line(a5, line, "FAIL:", "FAILED")
        a7 == IF ~a6.raised /\ endswith(line, " ... ERROR")
              THEN SetMap(a6, split(line, " ... ERROR")[1], "ERROR")
              ELSE a6
        a8 == django_label_line(a7, line, "ERROR:", "ERROR")
    IN  django_bare_ok(a8, line)

\* ^ and $ under re.MULTILINE
AtLineStart(s, b) == b = 1 \/ Char(s, b - 1) = "\n"

AtLineEnd(s, p) == p = Len(s) + 1 \/ Char(s, p) = "\n"

\* The first q >= p where lit starts and is followed by a line end, or 0.
RECURSIVE FindLineEnding(_, _, _)
FindLineEnding(s, lit, p) ==
    LET q == FindFrom(s, lit, p)
    IN  IF q = 0 THEN 0
        ELSE IF AtLineEnd(s, q + Len(lit)) THEN q
        ELSE FindLineEnding(s, lit, q + 1)

\* The three patterns' middles, after "^(.*?)\s\.\.\.\s".
noise_literal(k) ==
    CASE k = 1 -> "Testing against Django installed in "
      [] k = 2 -> "Internal Server Error: /"
      [] k = 3 -> "System check identified no issues (0 silenced)\nok"

\* What follows group 1 in pattern k, matched at e: the position after the
\* match, or 0.
\*   1: ((?s:.*?))\ silenced\)\.\nok$   the first " silenced).\nok" at a line end
\*   2: (.*)\/\nok$                      the line ends with "/", then "ok" alone
\*   3: \nok$                            (in the literal) at a line end
noise_tail_end(s, k, e) ==
    LET lit == noise_literal(k)
        p   == e + 5 + Len(lit)
    IN  IF ~(/\ Char(s, e) \in WHITESPACE
             /\ StartsWithAt(s, "...", e + 1)
             /\ Char(s, e + 4) \in WHITESPACE
             /\ StartsWithAt(s, lit, e + 5))
        THEN 0
        ELSE CASE k = 1 ->
                    LET q == FindLineEnding(s, " silenced).\nok", p)
                    IN  IF q = 0 THEN 0 ELSE q + Len(" silenced).\nok")
               [] k = 2 ->
                    LET le == FindFrom(s, "\n", p)
                    IN  IF /\ le # 0
                           /\ le - 1 >= p
                           /\ Char(s, le - 1) = "/"
                           /\ StartsWithAt(s, "\nok", le)
                           /\ AtLineEnd(s, le + 3)
                        THEN le + 3 ELSE 0
               [] k = 3 -> IF AtLineEnd(s, p) THEN p ELSE 0

\* ^(.*?) from line start b: the first e, with no line break in s[b..e), at
\* which the rest of pattern k matches.
noise_match(s, k, b) ==
    LET nl == FindFrom(s, "\n", b)
        le == IF nl = 0 THEN Len(s) + 1 ELSE nl
        e  == First({x \in b..le : noise_tail_end(s, k, x) # 0})
    IN  IF e = 0 THEN [end |-> 0, test_name |-> ""]
        ELSE [end |-> noise_tail_end(s, k, e), test_name |-> SubSeq(s, b, e - 1)]

\* for match in re.finditer(pattern, log, re.MULTILINE): map[match.group(1)] = PASSED
RECURSIVE noise_finditer(_, _, _, _)
noise_finditer(s, k, pos, m) ==
    LET b == First({x \in pos..Len(s) : AtLineStart(s, x) /\ noise_match(s, k, x).end # 0})
    IN  IF b = 0 THEN m
        ELSE noise_finditer(s, k, noise_match(s, k, b).end,
                            Put(m, noise_match(s, k, b).test_name, "PASSED"))

\* for pattern in patterns: ...
django_noise_patterns(l, m) ==
    noise_finditer(l, 3, 1, noise_finditer(l, 2, 1, noise_finditer(l, 1, 1, m)))

----------------------------------------------------------------------------
(* The parsers: each runs its loop body over the lines of the log *)

\* The body of the named loop.
line_body(name, acc, line) ==
    CASE name = "parse_log_pytest" -> pytest_line(acc, line)
      [] name = "parse_log_pytest_options" -> pytest_options_line(acc, line)
      [] name = "parse_log_django" -> django_line(acc, line)
      [] name = "parse_log_pytest_v2" -> pytest_v2_line(acc, line)
      [] name = "parse_log_seaborn" -> seaborn_line(acc, line)
      [] name = "parse_log_sympy: findall" -> sympy_block_line(acc, line)
      [] name = "parse_log_sympy" -> sympy_line(acc, line)
      [] name = "parse_log_matplotlib" -> matplotlib_line(acc, line)

\* for line in lines[i-1:]: the body for each line in turn, until one raises
RECURSIVE ForEachLine(_, _, _, _)
ForEachLine(name, lines, i, acc) ==
    IF i > Len(lines) \/ acc.raised THEN acc
    ELSE ForEachLine(name, lines, i + 1, line_body(name, acc, lines[i]))

\* The named loop over all of the log, from the empty mapping.
for_each_line(name, l) == ForEachLine(name, split(l, "\n"), 1, InitialAcc)

parse_log_pytest(l) == Outcome(for_each_line("parse_log_pytest", l))

parse_log_pytest_options(l) == Outcome(for_each_line("parse_log_pytest_options", l))

parse_log_django(l) ==
    LET acc == for_each_line("parse_log_django", l)
    IN  IF acc.raised THEN Raises ELSE Returned(django_noise_patterns(l, acc.map))

parse_log_pytest_v2(l) == Outcome(for_each_line("parse_log_pytest_v2", l))

parse_log_seaborn(l) == Outcome(for_each_line("parse_log_seaborn", l))

\* The matches of the pattern over the whole log first, then the lines.
parse_log_sympy(l) ==
    Outcome(ForEachLine("parse_log_sympy", split(l, "\n"), 1,
                        for_each_line("parse_log_sympy: findall", l)))

parse_log_matplotlib(l) == Outcome(for_each_line("parse_log_matplotlib", l))

----------------------------------------------------------------------------
(* parser_pytest *)

\* The TestStatus value that starts at i, "" for none (no value is a prefix
\* of another, so the alternation's order does not matter).
status_at(s, i) ==
    LET hits == {n \in DOMAIN TestStatus : StartsWithAt(s, TestStatus[n], i)}
    IN  IF hits = {} THEN "" ELSE TestStatus[First(hits)]

\* A match of (FAILED|PASSED|SKIPPED|ERROR|XFAIL)\s+(.+) at i.  \s+ takes the
\* whole white-space run, line breaks included, and gives back what (.+), which
\* stops at a line break, needs: the match exists when the run, or a shorter
\* start of it, is followed by a character other than a line break.
pytest_ptr_match(s, i) ==
    LET status == status_at(s, i)
        a  == i + Len(status)
        w  == RunEnd(s, WHITESPACE, TRUE, a)
        b  == Last({x \in (a + 1)..w : x <= Len(s) /\ Char(s, x) # "\n"})
        nl == FindFrom(s, "\n", b)
        e  == IF nl = 0 THEN Len(s) + 1 ELSE nl
    IN  IF status = "" \/ b = 0 THEN [end |-> 0, status |-> "", test_name |-> ""]
        ELSE [end |-> e, status |-> status, test_name |-> SubSeq(s, b, e - 1)]

\* for status, test_name in pytest_ptr.findall(log): dict[test_name] = status
RECURSIVE pytest_ptr_findall(_, _, _)
pytest_ptr_findall(s, pos, m) ==
    LET i == First({x \in pos..Len(s) : pytest_ptr_match(s, x).end # 0})
        r == pytest_ptr_match(s, i)
    IN  IF i = 0 THEN m
        ELSE pytest_ptr_findall(s, r.end, Put(m, r.test_name, r.status))

parser_pytest(l) == pytest_ptr_findall(l, 1, EmptyMap)

----------------------------------------------------------------------------
(* parser_unittest *)

\* UNITTEST_TO_PYTESTSTATUS, in the order of its keys (the order of the
\* patterns' alternation: "failed" is tried before "fail").
UNITTEST_KEYS == <<"error", "failed", "fail", "FAIL", "passed", "ok",
                   "skipped", "x", "u", "deprecated">>

UNITTEST_TO_PYTESTSTATUS(key) ==
    CASE key = "error"      -> "ERROR"
      [] key = "failed"     -> "FAILED"
      [] key = "fail"       -> "FAILED"
      [] key = "FAIL"       -> "FAILED"
      [] key = "passed"     -> "PASSED"
      [] key = "ok"         -> "PASSED"
      [] key = "skipped"    -> "SKIPPED"
      [] key = "x"          -> "XFAIL"
      [] key = "u"          -> "ERROR"
      [] key = "deprecated" -> "SKIPPED"

\* The first key of the alternation that starts at i, "" for none.
unittest_key_at(s, i) ==
    LET hits == {n \in DOMAIN UNITTEST_KEYS : StartsWithAt(s, UNITTEST_KEYS[n], i)}
    IN  IF hits = {} THEN "" ELSE UNITTEST_KEYS[First(hits)]

\* \s*\.\.\.\s*(error|failed|...) at p: [end, status], end = 0 for no match.
ellipsis_rest(s, p) ==
    LET x == RunEnd(s, WHITESPACE, TRUE, p)
        y == RunEnd(s, WHITESPACE, TRUE, x + 3)
        key == unittest_key_at(s, y)
    IN  IF StartsWithAt(s, "...", x) /\ key # ""
        THEN [end |-> y + Len(key), status |-> key]
        ELSE [end |-> 0, status |-> ""]

\* test[_\w]*\s\([^\)]+\) at i: the position after it, or 0.
test_paren_end(s, i) ==
    LET w == RunEnd(s, WORDCHARS, TRUE, i + 4)
        c == RunEnd(s, {")"}, FALSE, w + 2)
    IN  IF /\ StartsWithAt(s, "test", i)
           /\ Char(s, w) \in WHITESPACE
           /\ Char(s, w + 1) = "("
           /\ c > w + 2
           /\ Char(s, c) = ")"
        THEN c + 1 ELSE 0

\* A match of (test[_\w]*\s\([^\)]+\)|[^\s]+)\s*\.\.\.\s*(error|...) at i: the
\* first alternative when the rest matches after it, else the longest start
\* of the run of non-space characters after which the rest matches.
ellipsis_match(s, i) ==
    LET t  == test_paren_end(s, i)
        n  == RunEnd(s, WHITESPACE, FALSE, i)
        m  == Last({x \in (i + 1)..n : ellipsis_rest(s, x).end # 0})
        ne == IF t # 0 /\ ellipsis_rest(s, t).end # 0 THEN t ELSE m
        r  == ellipsis_rest(s, ne)
    IN  IF ne = 0 THEN [end |-> 0, status |-> "", test_name |-> ""]
        ELSE [end |-> r.end, status |-> r.status, test_name |-> SubSeq(s, i, ne - 1)]

\* A match of ([^\s]+)\n(error|...) at i: the run of non-space characters
\* from i, a line break right after it, and a key.
newline_match(s, i) ==
    LET n   == RunEnd(s, WHITESPACE, FALSE, i)
        key == unittest_key_at(s, n + 1)
    IN  IF n > i /\ Char(s, n) = "\n" /\ key # ""
        THEN [end |-> n + 1 + Len(key), status |-> key, test_name |-> SubSeq(s, i, n - 1)]
        ELSE [end |-> 0, status |-> "", test_name |-> ""]

\* One iteration of either loop over all_matches: a name without "test" and a
\* name already recorded are skipped.
unittest_record(m, test_name, status) ==
    IF ~contains(test_name, "test") THEN m
    ELSE IF test_name \in DOMAIN m THEN m
    ELSE Put(m, test_name, UNITTEST_TO_PYTESTSTATUS(status))

\* The first loop: re.findall of the "..." pattern
RECURSIVE ellipsis_findall(_, _, _)
ellipsis_findall(s, pos, m) ==
    LET i == First({x \in pos..Len(s) : ellipsis_match(s, x).end # 0})
        r == ellipsis_match(s, i)
    IN  IF i = 0 THEN m
        ELSE ellipsis_findall(s, r.end, unittest_record(m, r.test_name, r.status))

\* The second loop: re.findall of the line-break pattern
RECURSIVE newline_findall(_, _, _)
newline_findall(s, pos, m) ==
    LET i == First({x \in pos..Len(s) : newline_match(s, x).end # 0})
        r == newline_match(s, i)
    IN  IF i = 0 THEN m
        ELSE newline_findall(s, r.end, unittest_record(m, r.test_name, r.status))

unittest_ellipsis_pass(l) == ellipsis_findall(l, 1, EmptyMap)

unittest_newline_pass(l, m) == newline_findall(l, 1, m)

parser_unittest(l) == unittest_newline_pass(l, unittest_ellipsis_pass(l))

----------------------------------------------------------------------------
(* normalize_log *)

\* A match of (?i)\x1b\[[0-9]+m at i: the position after it, or 0.
to_escape_end(s, i) ==
    LET d == RunEnd(s, DIGITS, TRUE, i + 2)
    IN  IF /\ Char(s, i) = ESC
           /\ Char(s, i + 1) = "["
           /\ d > i + 2
           /\ Char(s, d) \in {"m", "M"}
        THEN d + 1 ELSE 0

\* to_escape.sub('', s): one pass from the left over the matches in s
RECURSIVE ToEscapeSubFrom(_, _)
ToEscapeSubFrom(s, i) ==
    LET k == First({j \in i..Len(s) : to_escape_end(s, j) # 0})
    IN  IF k = 0 THEN SubSeq(s, i, Len(s))
        ELSE SubSeq(s, i, k - 1) \o ToEscapeSubFrom(s, to_escape_end(s, k))

to_escape_sub(s) == ToEscapeSubFrom(s, 1)

\* n hex digits from i, then \b (the next character is no word character)
hex_run_then_boundary(s, i, n) ==
    /\ i + n - 1 <= Len(s)
    /\ \A j \in i..(i + n - 1) : Char(s, j) \in HEXDIGITS
    /\ Char(s, i + n) \notin WORDCHARS

\* A match of 0x[0-9A-Fa-f]{8}\b|0x[0-9A-Fa-f]{16}\b at i: the position
\* after it, or 0.
memory_addr_end(s, i) ==
    IF ~StartsWithAt(s, "0x", i) THEN 0
    ELSE IF hex_run_then_boundary(s, i + 2, 8) THEN i + 10
    ELSE IF hex_run_then_boundary(s, i + 2, 16) THEN i + 18
    ELSE 0

\* re.sub(memory_addr_regex, "0xXXXXXXXXX", s)
RECURSIVE MemoryAddrSubFrom(_, _)
MemoryAddrSubFrom(s, i) ==
    LET k == First({j \in i..Len(s) : memory_addr_end(s, j) # 0})
    IN  IF k = 0 THEN SubSeq(s, i, Len(s))
        ELSE SubSeq(s, i, k - 1) \o "0xXXXXXXXXX" \o MemoryAddrSubFrom(s, memory_addr_end(s, k))

memory_addr_sub(s) == MemoryAddrSubFrom(s, 1)

SHORT_TEST_SUMMARY_SEPARATOR ==
    "=========================== short test summary info ============================"

\* " in [\d\.]+s ={5,}" at p: the position after it, or 0.
duration_end(s, p) ==
    LET d == RunEnd(s, DIGITS \cup {"."}, TRUE, p + 4)
        e == RunEnd(s, {"="}, TRUE, d + 2)
    IN  IF /\ StartsWithAt(s, " in ", p)
           /\ d > p + 4
           /\ StartsWithAt(s, "s ", d)
           /\ e >= d + 2 + 5
        THEN e ELSE 0

\* A match of ={5,}.*? in [\d\.]+s ={5,} (re.DOTALL) at j: the position after
\* it, or 0.  ={5,} takes the whole run of "=" (the duration cannot start
\* inside it) and .*? runs, over line breaks too, to the first duration.
terminator_end(s, j) ==
    LET r == RunEnd(s, {"="}, TRUE, j)
        p == First({x \in r..Len(s) : duration_end(s, x) # 0})
    IN  IF r >= j + 5 /\ p # 0 THEN duration_end(s, p) ELSE 0

\* A match of pytest_pattern at the banner at b: (.*?) runs to the first
\* place a terminator matches.
pytest_pattern_match(s, b) ==
    LET a == b + Len(SHORT_TEST_SUMMARY_SEPARATOR)
        j == First({x \in a..Len(s) : terminator_end(s, x) # 0})
    IN  IF StartsWithAt(s, SHORT_TEST_SUMMARY_SEPARATOR, b) /\ j # 0
        THEN [end |-> terminator_end(s, j), block |-> SubSeq(s, a, j - 1)]
        ELSE [end |-> 0, block |-> ""]

\* matches = pytest_pattern.findall(log); for block in matches: log += f'{block}\n'
RECURSIVE pytest_pattern_blocks(_, _)
pytest_pattern_blocks(s, pos) ==
    LET b == First({x \in pos..Len(s) : pytest_pattern_match(s, x).end # 0})
        r == pytest_pattern_match(s, b)
    IN  IF b = 0 THEN ""
        ELSE r.block \o "\n" \o pytest_pattern_blocks(s, r.end)

\* The summary narrowing (the if at the end of normalize_log)
narrow_to_summary(l) ==
    IF contains(l, SHORT_TEST_SUMMARY_SEPARATOR)
    THEN IF count(l, SHORT_TEST_SUMMARY_SEPARATOR) = 1
         THEN SubSeq(l, find(l, SHORT_TEST_SUMMARY_SEPARATOR), Len(l))
         ELSE pytest_pattern_blocks(l, 1)
    ELSE l

normalize_log(l) == narrow_to_summary(memory_addr_sub(to_escape_sub(l)))

----------------------------------------------------------------------------
(* swa_parser *)

\* swa_merge as a plain test_result_dict.update(parser_unittest(log)): the
\* second pass overwrites the first.
swa_merge_second_wins(first, second) ==
    [k \in DOMAIN first \cup DOMAIN second |->
        IF k \in DOMAIN second THEN second[k] ELSE first[k]]

\* test_result_dict.update({k: v for k, v in parser_unittest(log).items()
\*                          if k not in test_result_dict})
swa_merge(first, second) ==
    [k \in DOMAIN first \cup DOMAIN second |->
        IF k \in DOMAIN first THEN first[k] ELSE second[k]]

swa_parser(l) ==
    LET n == normalize_log(l)
    IN  swa_merge(parser_pytest(n), parser_unittest(n))

----------------------------------------------------------------------------
(* Inputs: logs made of a few lines or pieces, drawn from small sets *)

\* The logs of 1..n lines, each line of set V.
RECURSIVE LogsOfLines(_, _)
LogsOfLines(V, n) ==
    IF n = 0 THEN {}
    ELSE IF n = 1 THEN V
    ELSE LET P == LogsOfLines(V, n - 1)
         IN  P \cup {p \o "\n" \o c : p \in P, c \in V}

\* The strings made of 0..n pieces, each piece of set V.
RECURSIVE Concats(_, _)
Concats(V, n) ==
    IF n = 0 THEN {""}
    ELSE LET P == Concats(V, n - 1)
         IN  P \cup {p \o c : p \in P, c \in V}

MaxLines == 3

DialectLines ==
    { "PASSED t",
      "FAILED t - msg",
      "PASSEDx t",
      "t x PASSED",
      ESC \o "[32mPASSED" \o ESC \o "[0m t",
      "FAILED",
      "FAIL:",
      "t ... ok",
      "t ... FAIL",
      "ok",
      "t ... System check identified no issues (0 silenced)",
      "test_a.py:1 ok",
      " test_a.py:1 " }

DialectLogs == LogsOfLines(DialectLines, MaxLines)

----------------------------------------------------------------------------
(* The state machine: a log is given, and a parser is applied to it *)

Idle ==
    /\ pc = "start"
    /\ parser = "none"
    /\ test_status_map = EmptyMap
    /\ raised = FALSE
    /\ normalized = ""
    /\ renormalized = ""
    /\ pass1 = EmptyMap
    /\ ellipsis = EmptyMap
    /\ pass2 = EmptyMap

\* A dialect parser called on log: it returns its mapping, or raises.
Call(name, outcome) ==
    /\ pc = "start"
    /\ pc' = "done"
    /\ parser' = name
    /\ test_status_map' = outcome.map
    /\ raised' = outcome.raised
    /\ UNCHANGED <<log, normalized, renormalized, pass1, ellipsis, pass2>>

RunPytest == Call("parse_log_pytest", parse_log_pytest(log))

RunPytestOptions == Call("parse_log_pytest_options", parse_log_pytest_options(log))

RunDjango == Call("parse_log_django", parse_log_django(log))

RunPytestV2 == Call("parse_log_pytest_v2", parse_log_pytest_v2(log))

RunSeaborn == Call("parse_log_seaborn", parse_log_seaborn(log))

RunSympy == Call("parse_log_sympy", parse_log_sympy(log))

RunMatplotlib == Call("parse_log_matplotlib", parse_log_matplotlib(log))

Init == log \in DialectLogs /\ Idle

Next ==
    \/ RunPytest
    \/ RunPytestOptions
    \/ RunDjango
    \/ RunPytestV2
    \/ RunSeaborn
    \/ RunSympy
    \/ RunMatplotlib

Spec == Init /\ [][Next]_vars

----------------------------------------------------------------------------
(* Claims about the dialect parsers, under Spec *)

\* C1: every value of the mapping a dialect parser returns is one of the
\* canonical status strings PASSED, FAILED, ERROR, SKIPPED, XFAIL.
C1_OnlyCanonicalStatuses ==
    (pc = "done" /\ ~raised) =>
        \A k \in DOMAIN test_status_map : test_status_map[k] \in StatusValues

\* C2: a dialect parser never raises: it returns a mapping for every log.
C2_NeverRaises == pc = "done" => ~raised

\* What line i of the log reports to the named parser: the entries its
\* line-by-line scan writes at that line (for parse_log_django, with the
\* pending name the lines before it left).
Reported(name, lines, i) ==
    CASE name = "parse_log_sympy" ->
            sympy_line(sympy_block_line(InitialAcc, lines[i]), lines[i]).map
      [] name = "parse_log_django" ->
            LET before == ForEachLine(name, SubSeq(lines, 1, i - 1), 1, InitialAcc)
            IN  django_line([before EXCEPT !.map = EmptyMap], lines[i]).map
      [] OTHER -> line_body(name, InitialAcc, lines[i]).map

\* C3: when several lines report the same identifier with different
\* statuses, the returned status is the one the last of these lines gives.
C3_LastLineWins ==
    (pc = "done" /\ ~raised) =>
        \A k \in DOMAIN test_status_map :
            LET lines == split(log, "\n")
                I == {i \in 1..Len(lines) : k \in DOMAIN Reported(parser, lines, i)}
            IN  (\E i, j \in I : Reported(parser, lines, i)[k] # Reported(parser, lines, j)[k])
                    => test_status_map[k] = Reported(parser, lines, Last(I))[k]

----------------------------------------------------------------------------
(* parse_log_pytest_options against parse_log_pytest: SpecOptions *)

MaxOptionParts == 4

OptionPieces == {"/", "a", "*", "[", "]"}

\* A status line whose identifier is t[<options>], alone or with text after
\* the bracket, and the log with one more report after it.
OptionLogs ==
    { "PASSED t[" \o o \o "]" \o after \o more :
        o \in Concats(OptionPieces, MaxOptionParts),
        after \in {"", "x"},
        more \in {"", "\nFAILED t[/a] - msg"} }

InitOptions == log \in OptionLogs /\ Idle

NextOptions ==
    \/ RunPytest
    \/ RunPytestOptions

SpecOptions == InitOptions /\ [][NextOptions]_vars

\* The status lines of the log with an identifier: their tokens.
StatusLineTokens(l) ==
    LET lines == split(l, "\n")
    IN  { status_line_tokens(lines[i]) :
            i \in {j \in 1..Len(lines) : /\ startswith_status(lines[j])
                                         /\ Len(status_line_tokens(lines[j])) >= 2} }

\* An options text that is an absolute path: a single "/" first, and no "*".
AbsolutePath(o) == startswith(o, "/") /\ ~startswith(o, "//") /\ ~contains(o, "*")

\* The last component of an absolute path: what follows its last "/".
PathTail(o) ==
    CHOOSE c \in {SubSeq(o, j, Len(o)) : j \in 2..(Len(o) + 1)} :
        ~contains(c, "/") /\ Char(o, Len(o) - Len(c)) = "/"

\* The identifier C7 expects for a token name[options].
C7_Expected(tok) ==
    LET i == find(tok, "[")
        name == SubSeq(tok, 1, i - 1)
        options == SubSeq(tok, i + 1, Len(tok) - 1)
    IN  IF AbsolutePath(options) THEN name \o "[/" \o PathTail(options) \o "]" ELSE tok

\* A token of the form name[options].
HasOptionsForm(tok) == endswith(tok, "]") /\ find(tok, "[") \in 1..(Len(tok) - 1)

\* C7: for a status line whose second token is name[options], the recorded
\* identifier is name[/<last path component>] when options is an absolute
\* path (one leading "/", no "*"), and the token as it stands otherwise.
C7_PathCollapsed ==
    (pc = "done" /\ parser = "parse_log_pytest_options") =>
        \A toks \in StatusLineTokens(log) :
            HasOptionsForm(toks[2]) =>
                /\ C7_Expected(toks[2]) \in DOMAIN test_status_map
                /\ (toks[2] # C7_Expected(toks[2]) /\ toks[2] \in DOMAIN test_status_map)
                      => \E other \in StatusLineTokens(log) :
                            options_test_name(other[2]) = toks[2]

\* C7's case: a path of two components was cut to its last one.
C7_Witness ==
    /\ pc = "done"
    /\ parser = "parse_log_pytest_options"
    /\ \E toks \in StatusLineTokens(log) :
          /\ HasOptionsForm(toks[2])
          /\ toks[2] = "t[/a/a]"
          /\ C7_Expected(toks[2]) = "t[/a]"
          /\ test_status_map = [k \in {"t[/a]"} |-> toks[1]]

\* C9: when no status line's identifier has an absolute path between its
\* brackets, parse_log_pytest_options returns what parse_log_pytest returns.
C9_SameAsPytest ==
    (/\ pc = "done"
     /\ parser = "parse_log_pytest_options"
     /\ \A toks \in StatusLineTokens(log) :
            LET i == find(toks[2], "[")
                j == rfind(toks[2], "]")
            IN  ~(i # 0 /\ j > i /\ AbsolutePath(SubSeq(toks[2], i + 1, j - 1))))
    => test_status_map = parse_log_pytest(log).map

----------------------------------------------------------------------------
(* parse_log_django on " ... " lines: SpecDjango *)

MaxDjangoLines == 2

DjangoNames == {"t", "ok_t"}

DjangoSuffixes == {"ok", "OK", "skipped", "FAIL", "ERROR", "x"}

DjangoLines ==
    {n \o " ... " \o sfx : n \in DjangoNames, sfx \in DjangoSuffixes}
        \cup {"ok", "FAIL: t", "Ran 1 test"}

DjangoLogs == LogsOfLines(DjangoLines, MaxDjangoLines)

InitDjango == log \in DjangoLogs /\ Idle

NextDjango == RunDjango

SpecDjango == InitDjango /\ [][NextDjango]_vars

\* The status the suffix of a " ... " line stands for.
SuffixStatus(sfx) ==
    CASE sfx \in {"ok", "OK"} -> "PASSED"
      [] sfx = "skipped" -> "SKIPPED"
      [] sfx = "FAIL" -> "FAILED"
      [] sfx = "ERROR" -> "ERROR"

\* C8: a name that one line "N ... <suffix>" reports, and no other line, is
\* mapped to the suffix's status.
C8_SuffixDecides ==
    (pc = "done" /\ ~raised) =>
        \A n \in DjangoNames, sfx \in {"ok", "OK", "skipped", "FAIL", "ERROR"} :
            LET lines == split(log, "\n")
                I == {i \in 1..Len(lines) : lines[i] = n \o " ... " \o sfx}
            IN  (/\ Cardinality(I) = 1
                 /\ \A j \in 1..Len(lines) :
                        j \notin I => n \notin DOMAIN Reported(parser, lines, j))
                => (n \in DOMAIN test_status_map /\ test_status_map[n] = SuffixStatus(sfx))

\* The line-by-line loop after its first n lines.
DjangoAfter(lines, n) == ForEachLine("parse_log_django", SubSeq(lines, 1, n), 1, InitialAcc)

\* C10: a name that its own line "N ... FAIL" or "N ... ERROR" recorded as
\* FAILED or ERROR is not turned to PASSED by a later line that starts with
\* "ok", no " ... " line coming between.
C10_OkKeepsFailure ==
    (pc = "done" /\ ~raised) =>
        LET lines == split(log, "\n")
            last == Len(lines)
        IN  \A i \in 1..(last - 1) :
                LET at == DjangoAfter(lines, i)
                    n == at.prev_test
                IN  (/\ contains(lines[i], " ... ")
                     /\ n \in DOMAIN at.map
                     /\ at.map[n] \in {"FAILED", "ERROR"}
                     /\ \A m \in (i + 1)..last : ~contains(lines[m], " ... ")
                     /\ startswith(lstrip(lines[last]), "ok"))
                    => test_status_map[n] # "PASSED"

----------------------------------------------------------------------------
(* normalize_log, applied once and again: SpecNormalize *)

MaxNormParts == 4

TERMINATOR == "===== 1 passed in 0.1s ====="

NormPieces ==
    { SHORT_TEST_SUMMARY_SEPARATOR \o "\n",
      TERMINATOR \o "\n",
      "a\n",
      ESC \o "[",
      ESC \o "[1m",
      "1m",
      "0x1A2B3C4D" }

NormLogs == Concats(NormPieces, MaxNormParts)

Normalize ==
    /\ pc = "start"
    /\ pc' = "normalized"
    /\ normalized' = normalize_log(log)
    /\ UNCHANGED <<log, parser, test_status_map, raised, renormalized, pass1, ellipsis, pass2>>

NormalizeAgain ==
    /\ pc = "normalized"
    /\ pc' = "renormalized"
    /\ renormalized' = normalize_log(normalized)
    /\ UNCHANGED <<log, parser, test_status_map, raised, normalized, pass1, ellipsis, pass2>>

InitNormalize == log \in NormLogs /\ Idle

NextNormalize ==
    \/ Normalize
    \/ NormalizeAgain

SpecNormalize == InitNormalize /\ [][NextNormalize]_vars

\* C5: normalize_log is idempotent.
C5_Idempotent == pc = "renormalized" => renormalized = normalized

\* The blocks C6 describes, from position pos on: for each banner, the text
\* up to the first terminator in what lies between it and the next banner
\* (the end of the log for the last banner), when there is one.
RECURSIVE C6_BoundedBlocks(_, _)
C6_BoundedBlocks(s, pos) ==
    LET b   == FindFrom(s, SHORT_TEST_SUMMARY_SEPARATOR, pos)
        a   == b + Len(SHORT_TEST_SUMMARY_SEPARATOR)
        n   == FindFrom(s, SHORT_TEST_SUMMARY_SEPARATOR, a)
        nb  == IF n = 0 THEN Len(s) + 1 ELSE n
        seg == SubSeq(s, a, nb - 1)
        j   == First({x \in 1..Len(seg) : terminator_end(seg, x) # 0})
    IN  IF b = 0 THEN ""
        ELSE IF j = 0 THEN C6_BoundedBlocks(s, nb)
        ELSE SubSeq(seg, 1, j - 1) \o "\n" \o C6_BoundedBlocks(s, nb)

\* C6: with two banners or more, the output is the bounded blocks, each
\* followed by a line break; a banner with no terminator before the next
\* banner contributes nothing.
C6_OnlyBoundedBlocks ==
    LET cleaned == memory_addr_sub(to_escape_sub(log))
    IN  (pc = "normalized" /\ count(cleaned, SHORT_TEST_SUMMARY_SEPARATOR) >= 2)
            => normalized = C6_BoundedBlocks(cleaned, 1)

----------------------------------------------------------------------------
(* swa_parser, step by step: SpecSwa *)

MaxSwaEntries == 3

SwaEntries ==
    { "PASSED test_a",
      "FAILED test_a",
      "test_a ... ok",
      "test_a ... fail",
      "test_a\nok",
      "test_b\nfailed",
      "test_b ... x",
      ESC \o "[31mERROR" \o ESC \o "[0m test_b" }

SwaLogs == LogsOfLines(SwaEntries, MaxSwaEntries)

\* test_result_dict = parser_pytest(log)
SwaPytest ==
    /\ pc = "normalized"
    /\ pc' = "pytest"
    /\ pass1' = parser_pytest(normalized)
    /\ UNCHANGED <<log, parser, test_status_map, raised, normalized, renormalized, ellipsis, pass2>>

\* parser_unittest(log): its first loop
SwaEllipsis ==
    /\ pc = "pytest"
    /\ pc' = "ellipsis"
    /\ ellipsis' = unittest_ellipsis_pass(normalized)
    /\ UNCHANGED <<log, parser, test_status_map, raised, normalized, renormalized, pass1, pass2>>

\* parser_unittest(log): its second loop, and its return
SwaNewline ==
    /\ pc = "ellipsis"
    /\ pc' = "unittest"
    /\ pass2' = unittest_newline_pass(normalized, ellipsis)
    /\ UNCHANGED <<log, parser, test_status_map, raised, normalized, renormalized, pass1, ellipsis>>

\* test_result_dict.update(...); return test_result_dict
SwaMerge ==
    /\ pc = "unittest"
    /\ pc' = "done"
    /\ parser' = "swa_parser"
    /\ test_status_map' = swa_merge(pass1, pass2)
    /\ UNCHANGED <<log, raised, normalized, renormalized, pass1, ellipsis, pass2>>

InitSwa == log \in SwaLogs /\ Idle

NextSwa ==
    \/ Normalize
    \/ SwaPytest
    \/ SwaEllipsis
    \/ SwaNewline
    \/ SwaMerge

SpecSwa == InitSwa /\ [][NextSwa]_vars

\* C4: an identifier both passes report keeps the status-prefix pass's status;
\* an entry of the ellipsis/newline pass is in the result only when the
\* status-prefix pass has none for its identifier; and the newline loop does
\* not overwrite what the ellipsis loop recorded.
C4_FirstPassWins ==
    /\ pc \in {"unittest", "done"} =>
          \A k \in DOMAIN ellipsis : k \in DOMAIN pass2 /\ pass2[k] = ellipsis[k]
    /\ pc = "done" =>
          /\ DOMAIN test_status_map = DOMAIN pass1 \cup DOMAIN pass2
          /\ \A k \in DOMAIN pass1 : test_status_map[k] = pass1[k]
          /\ \A k \in DOMAIN pass2 \ DOMAIN pass1 : test_status_map[k] = pass2[k]

\* C4's case: the two passes disagree on an identifier, and so do the two
\* loops of the second pass.
C4_Witness ==
    /\ pc = "done"
    /\ \E k \in DOMAIN pass1 \cap DOMAIN pass2 :
          pass1[k] # pass2[k] /\ test_status_map[k] = pass1[k]
    /\ \E k \in DOMAIN ellipsis \cap DOMAIN unittest_newline_pass(normalized, EmptyMap) :
          unittest_newline_pass(normalized, EmptyMap)[k] # ellipsis[k]

====
